---- MODULE Spec2Model ----
(***************************************************************************)
(* Model of the job / payment orchestration in main.py: the two module     *)
(* level tables (jobs, payment_instances) and the three coroutines that    *)
(* touch them (start_job, handle_payment_status, get_status).  The event   *)
(* loop is cooperative: a coroutine runs atomically from one real          *)
(* suspension point (an awaited call into the payment library) to the      *)
(* next, so every action below is one such stretch of code.                *)
(***************************************************************************)
EXTENDS Integers, Sequences, FiniteSets, Bags, TLC

\* ------------------------------------------------------------------ bounds
MaxJobs == 2          \* job identifiers that start_job can hand out
MaxTasks == 2         \* coroutines that may be suspended at the same time
MaxCalls == 4         \* calls of the three handlers in one run of the service

JobIds == 1..MaxJobs

\* ------------------------------------------------------- program constants
\* USER_PREFERENCES["interested_categories"]
interested_categories == {"Technology", "Gaming", "DeFi"}

\* values of AdOfferInput.ad_category the job requests carry: one in the
\* allow-list and one outside it (ExecutorInputs has the empty and missing ones)
Categories == {"Technology", "Sports"}

\* blockchainIdentifier values the provider issues
PaymentIds == {"pay1"}

\* data.status values the provider poll reports ("None": the key is missing)
PollStatuses == {"FundsLocked", "None"}

\* Python None as a result
None == <<>>

VARIABLES jobs, payment_instances, tasks, exec_count, calls, reply

vars == <<jobs, payment_instances, tasks, exec_count, calls, reply>>

\* ---------------------------------------------------------------- helpers
Terminal == {"completed", "failed"}

NoInput == [ad_category |-> "", bid_amount |-> "", ad_content_url |-> ""]

\* the local state of a coroutine before its first statement
Idle == [kind |-> "idle", job_id |-> 0, pc |-> "", input_data |-> NoInput,
         result |-> None, payment_request |-> "", delivered_in |-> ""]

NoBody == [job_id |-> 0, status |-> "", payment_status |-> "", result |-> None]

\* The last step finished no call.  Otherwise reply describes the call the
\* last step finished: which handler (op) for which job, the HTTP status or
\* the exception that left it (raised), the response body, and what the
\* awaited provider call did (poll for check_payment_status, finalization for
\* complete_payment); prev_payment_status is payment_status before the poll
\* was written, delivered_in the job status the callback found.
NoReply == [op |-> "none", job_id |-> 0, http |-> 0, raised |-> "",
            body |-> NoBody, poll |-> "none", prev_payment_status |-> "",
            finalization |-> "none", delivered_in |-> ""]

\* tasks is the bag of coroutines suspended at an await; the event loop can
\* hold one more
CanSuspend == BagCardinality(tasks) < MaxTasks

\* the coroutines waiting for the event loop to resume them
Suspended == BagToSet(tasks)

\* a coroutine reaches an await
Suspend(ts, task) == ts (+) SetToBag({task})

\* the event loop resumes a coroutine, which runs to its end
Finish(ts, task) == ts (-) SetToBag({task})

\* str(uuid.uuid4()): an identifier no job and no running start_job has
UsedIds == DOMAIN jobs \cup {t.job_id : t \in {u \in Suspended : u.kind = "start_job"}}

FreshId == CHOOSE j \in JobIds \ UsedIds : \A k \in JobIds \ UsedIds : j <= k

\* the gatekeeper without the "if not incoming_category" test
execute_crew_task_unchecked(input_data) ==
    LET incoming_category == IF "ad_category" \in DOMAIN input_data
                             THEN input_data["ad_category"] ELSE ""
    IN  IF incoming_category \notin interested_categories
        THEN <<"REJECTED", incoming_category>>
        ELSE <<"ACCEPTED", incoming_category>>

\* the gatekeeper: a decision on input_data.get("ad_category")
execute_crew_task(input_data) ==
    LET incoming_category == IF "ad_category" \in DOMAIN input_data
                             THEN input_data["ad_category"] ELSE ""
    IN  IF incoming_category = ""
        THEN <<"ERROR", "No category provided.">>
        ELSE IF incoming_category \notin interested_categories
             THEN <<"REJECTED", incoming_category>>
             ELSE <<"ACCEPTED", incoming_category>>

Init ==
    /\ jobs = <<>>
    /\ payment_instances = <<>>
    /\ tasks = EmptyBag
    /\ exec_count = [j \in JobIds |-> 0]
    /\ calls = 0
    /\ reply = NoReply

\* ------------------------------------------------------------- start_job
\* POST /start_job up to the await of create_payment_request
StartJobCall(c) ==
    /\ calls < MaxCalls
    /\ calls' = calls + 1
    /\ CanSuspend
    /\ JobIds \ UsedIds # {}
    /\ tasks' = Suspend(tasks,
                    [Idle EXCEPT !.kind = "start_job", !.job_id = FreshId,
                                 !.pc = "create_payment_request",
                                 !.input_data = [ad_category |-> c,
                                                 bid_amount |-> "0.5",
                                                 ad_content_url |-> "url"]])
    /\ reply' = NoReply
    /\ UNCHANGED <<jobs, payment_instances, exec_count>>

\* the record start_job stores for a new job
NewJob(blockchain_identifier, input_data) ==
    [status |-> "awaiting_payment",
     payment_status |-> "pending",
     blockchain_identifier |-> blockchain_identifier,
     input_data |-> input_data,
     result |-> None,
     error |-> "absent",
     identifier_from_purchaser |-> "marketer_123"]

\* create_payment_request raised (exc = "Exception"), or its answer has no
\* blockchainIdentifier (exc = "KeyError"): the except clauses turn either
\* into HTTP 400 before anything is stored
StartJobRequestFailed(t, exc) ==
    /\ t.kind = "start_job"
    /\ t.pc = "create_payment_request"
    /\ tasks' = Finish(tasks, t)
    /\ reply' = [NoReply EXCEPT !.op = "start_job", !.job_id = t.job_id,
                                !.http = 400, !.raised = exc]
    /\ UNCHANGED <<jobs, payment_instances, exec_count, calls>>

\* create_payment_request answered: store the job, register the payment,
\* await start_status_monitoring.  payment_request is "full" when the answer
\* has every field the response reads, "partial" when one is missing.
StartJobRequested(t, blockchain_identifier, payment_request) ==
    /\ t.kind = "start_job"
    /\ t.pc = "create_payment_request"
    /\ jobs' = (t.job_id :> NewJob(blockchain_identifier, t.input_data)) @@ jobs
    /\ payment_instances' = (t.job_id :> [monitoring |-> FALSE]) @@ payment_instances
    /\ tasks' = Suspend(Finish(tasks, t),
                        [t EXCEPT !.pc = "start_status_monitoring",
                                  !.payment_request = payment_request])
    /\ reply' = NoReply
    /\ UNCHANGED <<exec_count, calls>>

\* start_status_monitoring raised: except Exception -> HTTP 400
StartJobMonitoringFailed(t) ==
    /\ t.kind = "start_job"
    /\ t.pc = "start_status_monitoring"
    /\ tasks' = Finish(tasks, t)
    /\ reply' = [NoReply EXCEPT !.op = "start_job", !.job_id = t.job_id,
                                !.http = 400, !.raised = "Exception"]
    /\ UNCHANGED <<jobs, payment_instances, exec_count, calls>>

\* start_status_monitoring returned: the monitor runs; build the response (a
\* missing field of the provider's answer is a KeyError -> HTTP 400)
StartJobMonitoring(t) ==
    /\ t.kind = "start_job"
    /\ t.pc = "start_status_monitoring"
    /\ payment_instances' =
          IF t.job_id \in DOMAIN payment_instances
          THEN [payment_instances EXCEPT ![t.job_id].monitoring = TRUE]
          ELSE payment_instances
    /\ tasks' = Finish(tasks, t)
    /\ reply' = IF t.payment_request = "full"
                THEN [NoReply EXCEPT !.op = "start_job", !.job_id = t.job_id,
                                     !.http = 200,
                                     !.body = [NoBody EXCEPT !.job_id = t.job_id,
                                                             !.status = "success"]]
                ELSE [NoReply EXCEPT !.op = "start_job", !.job_id = t.job_id,
                                     !.http = 400, !.raised = "KeyError"]
    /\ UNCHANGED <<jobs, exec_count, calls>>

\* ------------------------------------------------- handle_payment_status
\* the except branch recording the error but not the status
HandleFailedKeepsStatus(js, j, e) ==
    [js EXCEPT ![j].error = e]

\* the except branch: status failed, error recorded
HandleFailed(js, j, e) ==
    [js EXCEPT ![j].status = "failed", ![j].error = e]

\* the cleanup empties the whole table: payment_instances.clear()
StopMonitoringClearsAll(ps, j) ==
    IF j \in DOMAIN ps THEN [k \in {} |-> ps[k]] ELSE ps

\* the monitor is stopped but the entry is never deleted
StopMonitoringKeepsEntry(ps, j) == ps

\* stop_status_monitoring followed by del, under "if job_id in payment_instances"
StopMonitoring(ps, j) ==
    IF j \in DOMAIN ps
    THEN [k \in DOMAIN ps \ {j} |-> ps[k]]
    ELSE ps

\* the callback for a job identifier the table does not hold: line 200 raises
\* KeyError, the except branch raises it again at line 226, and it leaves the
\* function
HandleUnknown(j) ==
    /\ calls < MaxCalls
    /\ calls' = calls + 1
    /\ j \notin DOMAIN jobs
    /\ reply' = [NoReply EXCEPT !.op = "handle_payment_status", !.job_id = j,
                                !.raised = "KeyError"]
    /\ UNCHANGED <<jobs, payment_instances, tasks, exec_count>>

\* the monitor of job j can deliver the callback: it was started, or the
\* payment is already removed and the delivery is a late one
CanDeliver(j) ==
    /\ j \in DOMAIN jobs
    /\ j \in DOMAIN payment_instances => payment_instances[j].monitoring

\* the callback marking the job completed before complete_payment is awaited
HandleCallCompletesEarly(j) ==
    /\ calls < MaxCalls
    /\ calls' = calls + 1
    /\ CanDeliver(j)
    /\ exec_count' = [exec_count EXCEPT ![j] = @ + 1]
    /\ IF j \in DOMAIN payment_instances
       THEN /\ CanSuspend
            /\ jobs' = [jobs EXCEPT ![j].status = "completed"]
            /\ tasks' = Suspend(tasks,
                            [Idle EXCEPT !.kind = "handle_payment_status",
                                         !.job_id = j,
                                         !.pc = "complete_payment",
                                         !.result = execute_crew_task(jobs[j].input_data),
                                         !.delivered_in = jobs[j].status])
            /\ reply' = NoReply
            /\ UNCHANGED payment_instances
       ELSE /\ jobs' = HandleFailed(jobs, j, "KeyError")
            /\ reply' = [NoReply EXCEPT !.op = "handle_payment_status",
                                        !.job_id = j,
                                        !.finalization = "KeyError",
                                        !.delivered_in = jobs[j].status]
            /\ UNCHANGED <<payment_instances, tasks>>

\* the callback for a stored job, up to the await of complete_payment: set
\* running, run the gatekeeper (a coroutine that never suspends), look the
\* payment up.  Without a registered payment the lookup raises KeyError and
\* the except branch finishes the call at once.
HandleCall(j) ==
    /\ calls < MaxCalls
    /\ calls' = calls + 1
    /\ CanDeliver(j)
    /\ exec_count' = [exec_count EXCEPT ![j] = @ + 1]
    /\ IF j \in DOMAIN payment_instances
       THEN /\ CanSuspend
            /\ jobs' = [jobs EXCEPT ![j].status = "running"]
            /\ tasks' = Suspend(tasks,
                            [Idle EXCEPT !.kind = "handle_payment_status",
                                         !.job_id = j,
                                         !.pc = "complete_payment",
                                         !.result = execute_crew_task(jobs[j].input_data),
                                         !.delivered_in = jobs[j].status])
            /\ reply' = NoReply
            /\ UNCHANGED payment_instances
       ELSE /\ jobs' = HandleFailed(jobs, j, "KeyError")
            /\ reply' = [NoReply EXCEPT !.op = "handle_payment_status",
                                        !.job_id = j,
                                        !.finalization = "KeyError",
                                        !.delivered_in = jobs[j].status]
            /\ UNCHANGED <<payment_instances, tasks>>

\* complete_payment returned: completed, result stored, payment removed
HandleCompleted(t) ==
    /\ t.kind = "handle_payment_status"
    /\ LET j == t.job_id
       IN  /\ jobs' = [jobs EXCEPT ![j].status = "completed",
                                   ![j].payment_status = "completed",
                                   ![j].result = t.result]
           /\ payment_instances' = StopMonitoring(payment_instances, j)
           /\ reply' = [NoReply EXCEPT !.op = "handle_payment_status",
                                       !.job_id = j,
                                       !.finalization = "ok",
                                       !.delivered_in = t.delivered_in]
    /\ tasks' = Finish(tasks, t)
    /\ UNCHANGED <<exec_count, calls>>

\* the except branch without its stop and del
HandleCompleteFailedNoCleanup(t) ==
    /\ t.kind = "handle_payment_status"
    /\ LET j == t.job_id
       IN  /\ jobs' = HandleFailed(jobs, j, "Exception")
           /\ payment_instances' = payment_instances
           /\ reply' = [NoReply EXCEPT !.op = "handle_payment_status",
                                       !.job_id = j,
                                       !.finalization = "failed",
                                       !.delivered_in = t.delivered_in]
    /\ tasks' = Finish(tasks, t)
    /\ UNCHANGED <<exec_count, calls>>

\* complete_payment raised: the except branch
HandleCompleteFailed(t) ==
    /\ t.kind = "handle_payment_status"
    /\ LET j == t.job_id
       IN  /\ jobs' = HandleFailed(jobs, j, "Exception")
           /\ payment_instances' = StopMonitoring(payment_instances, j)
           /\ reply' = [NoReply EXCEPT !.op = "handle_payment_status",
                                       !.job_id = j,
                                       !.finalization = "failed",
                                       !.delivered_in = t.delivered_in]
    /\ tasks' = Finish(tasks, t)
    /\ UNCHANGED <<exec_count, calls>>

\* ------------------------------------------------------------ get_status
\* the dictionary get_status returns
Snapshot(js, j) ==
    [job_id |-> j, status |-> js[j].status,
     payment_status |-> js[j].payment_status, result |-> js[j].result]

\* get_status without the "job_id not in jobs" test: jobs[job_id] raises
GetStatusCallNoLookup(j) ==
    /\ calls < MaxCalls
    /\ calls' = calls + 1
    /\ IF j \notin DOMAIN jobs
       THEN /\ reply' = [NoReply EXCEPT !.op = "get_status", !.job_id = j,
                                        !.http = 500, !.raised = "KeyError"]
            /\ UNCHANGED tasks
       ELSE IF j \in DOMAIN payment_instances
            THEN /\ CanSuspend
                 /\ tasks' = Suspend(tasks,
                                 [Idle EXCEPT !.kind = "get_status", !.job_id = j,
                                              !.pc = "check_payment_status"])
                 /\ reply' = NoReply
            ELSE /\ reply' = [NoReply EXCEPT !.op = "get_status", !.job_id = j,
                                             !.http = 200,
                                             !.body = Snapshot(jobs, j),
                                             !.prev_payment_status = jobs[j].payment_status]
                 /\ UNCHANGED tasks
    /\ UNCHANGED <<jobs, payment_instances, exec_count>>

\* GET /status up to the await of check_payment_status (or to the return,
\* when the job is unknown or has no registered payment)
GetStatusCall(j) ==
    /\ calls < MaxCalls
    /\ calls' = calls + 1
    /\ IF j \notin DOMAIN jobs
       THEN /\ reply' = [NoReply EXCEPT !.op = "get_status", !.job_id = j,
                                        !.http = 404]
            /\ UNCHANGED tasks
       ELSE IF j \in DOMAIN payment_instances
            THEN /\ CanSuspend
                 /\ tasks' = Suspend(tasks,
                                 [Idle EXCEPT !.kind = "get_status", !.job_id = j,
                                              !.pc = "check_payment_status"])
                 /\ reply' = NoReply
            ELSE /\ reply' = [NoReply EXCEPT !.op = "get_status", !.job_id = j,
                                             !.http = 200,
                                             !.body = Snapshot(jobs, j),
                                             !.prev_payment_status = jobs[j].payment_status]
                 /\ UNCHANGED tasks
    /\ UNCHANGED <<jobs, payment_instances, exec_count>>

\* one marker for every failure, as if the second except clause were missing
PollFailureStatusOneMarker(exc) == "unknown"

\* the payment_status the two except clauses of the poll write
PollFailureStatus(exc) ==
    IF exc = "ValueError" THEN "unknown" ELSE "error"

\* what the poll leaves in job["payment_status"]: the reported status, or the
\* marker of the except clause that caught the failure
PolledStatus(outcome) ==
    IF outcome \in PollStatuses THEN outcome ELSE PollFailureStatus(outcome)

\* the poll with "except ValueError" only: any other error leaves get_status
GetStatusPolledUncaught(t, outcome) ==
    /\ t.kind = "get_status"
    /\ LET j == t.job_id
       IN  IF outcome = "Exception"
           THEN /\ jobs' = jobs
                /\ reply' = [NoReply EXCEPT !.op = "get_status", !.job_id = j,
                                            !.http = 500, !.raised = outcome,
                                            !.poll = outcome,
                                            !.prev_payment_status = jobs[j].payment_status]
           ELSE /\ jobs' = [jobs EXCEPT ![j].payment_status = PolledStatus(outcome)]
                /\ reply' = [NoReply EXCEPT !.op = "get_status", !.job_id = j,
                                            !.http = 200,
                                            !.body = Snapshot(jobs', j),
                                            !.poll = IF outcome \in PollStatuses
                                                     THEN "ok" ELSE outcome,
                                            !.prev_payment_status = jobs[j].payment_status]
    /\ tasks' = Finish(tasks, t)
    /\ UNCHANGED <<payment_instances, exec_count, calls>>

\* the poll written to the wrong key: job["status"] instead of payment_status
GetStatusPolledWritesStatus(t, outcome) ==
    /\ t.kind = "get_status"
    /\ LET j == t.job_id
       IN  /\ jobs' = [jobs EXCEPT ![j].status = PolledStatus(outcome)]
           /\ reply' = [NoReply EXCEPT !.op = "get_status", !.job_id = j,
                                       !.http = 200,
                                       !.body = Snapshot(jobs', j),
                                       !.poll = IF outcome \in PollStatuses
                                                THEN "ok" ELSE outcome,
                                       !.prev_payment_status = jobs[j].payment_status]
    /\ tasks' = Finish(tasks, t)
    /\ UNCHANGED <<payment_instances, exec_count, calls>>

\* check_payment_status returned or raised: write payment_status, return
GetStatusPolled(t, outcome) ==
    /\ t.kind = "get_status"
    /\ LET j == t.job_id
       IN  /\ jobs' = [jobs EXCEPT ![j].payment_status = PolledStatus(outcome)]
           /\ reply' = [NoReply EXCEPT !.op = "get_status", !.job_id = j,
                                       !.http = 200,
                                       !.body = Snapshot(jobs', j),
                                       !.poll = IF outcome \in PollStatuses
                                                THEN "ok" ELSE outcome,
                                       !.prev_payment_status = jobs[j].payment_status]
    /\ tasks' = Finish(tasks, t)
    /\ UNCHANGED <<payment_instances, exec_count, calls>>

\* ------------------------------------------------------------------ Next
PollFailures == {"ValueError", "Exception"}

PollOutcomes == PollStatuses \cup PollFailures

Next ==
    \/ \E c \in Categories : StartJobCall(c)
    \/ \E t \in Suspended, exc \in {"Exception", "KeyError"} : StartJobRequestFailed(t, exc)
    \/ \E t \in Suspended, b \in PaymentIds, r \in {"full", "partial"} : StartJobRequested(t, b, r)
    \/ \E t \in Suspended : StartJobMonitoringFailed(t)
    \/ \E t \in Suspended : StartJobMonitoring(t)
    \/ \E j \in JobIds : HandleUnknown(j)
    \/ \E j \in JobIds : HandleCall(j)
    \/ \E t \in Suspended : HandleCompleted(t)
    \/ \E t \in Suspended : HandleCompleteFailed(t)
    \/ \E j \in JobIds : GetStatusCall(j)
    \/ \E t \in Suspended, o \in PollOutcomes : GetStatusPolled(t, o)

Spec == Init /\ [][Next]_vars

\* ---------------------------------------------------------------- claims
\* the edges of the job lifecycle
LifecycleEdges ==
    {<<"awaiting_payment", "running">>, <<"running", "completed">>,
     <<"running", "failed">>, <<"awaiting_payment", "failed">>}

\* C1: the gatekeeper runs at most once for every job, whatever callbacks
\* (duplicate or late ones included) and status queries are interleaved.
C1_ExecutedAtMostOnce ==
    \A j \in JobIds : exec_count[j] <= 1

\* C2: a callback delivered to a job that is already completed or failed
\* changes neither the job table nor the payment table, and calls neither the
\* gatekeeper nor complete_payment.
C2_IdempotentOnFinished ==
    [][\A j \in DOMAIN jobs :
          (jobs[j].status \in Terminal /\ HandleCall(j))
             => UNCHANGED <<jobs, payment_instances, exec_count, tasks>>]_vars

\* C3: a callback delivered to a job awaiting payment leaves it completed with
\* a result when complete_payment succeeded, and failed with an error and no
\* result when it failed; a status query returns the stored status and result.
C3_SettlementOutcome ==
    /\ (reply.op = "handle_payment_status" /\ reply.delivered_in = "awaiting_payment")
          => LET job == jobs[reply.job_id]
             IN  IF reply.finalization = "ok"
                 THEN job.status = "completed" /\ job.result # None
                 ELSE job.status = "failed" /\ job.error # "absent"
                                            /\ job.result = None
    /\ (reply.op = "get_status" /\ reply.http = 200)
          => /\ reply.body.status = jobs[reply.job_id].status
             /\ reply.body.result = jobs[reply.job_id].result

\* C4: no job record ever holds both a result and an error.
C4_NeverResultAndError ==
    \A j \in DOMAIN jobs : ~(jobs[j].result # None /\ jobs[j].error # "absent")

\* C5: a job's status only moves along the lifecycle edges, so a completed or
\* failed job keeps its status for ever.
C5_LifecycleMonotone ==
    [][\A j \in DOMAIN jobs :
          \/ jobs'[j].status = jobs[j].status
          \/ <<jobs[j].status, jobs'[j].status>> \in LifecycleEdges]_vars

\* C6: start_job either answers 200 and leaves a job awaiting payment with
\* payment_status pending, a payment identifier and a registered payment, or
\* fails and leaves neither a job record nor a payment entry for the job.
C6_CreateAllOrNothing ==
    reply.op = "start_job"
       => IF reply.http = 200
          THEN /\ reply.job_id \in DOMAIN jobs
               /\ reply.job_id \in DOMAIN payment_instances
               /\ jobs[reply.job_id].status = "awaiting_payment"
               /\ jobs[reply.job_id].payment_status = "pending"
               /\ jobs[reply.job_id].blockchain_identifier # ""
          ELSE /\ reply.job_id \notin DOMAIN jobs
               /\ reply.job_id \notin DOMAIN payment_instances

\* C7: the callback for a job identifier the table does not hold raises
\* nothing to its caller (and, being a no-op, changes nothing).
C7_UnknownJobNoop ==
    (reply.op = "handle_payment_status" /\ reply.job_id \notin DOMAIN jobs)
       => reply.raised = ""

\* C8: when the provider poll inside get_status raises, get_status still
\* answers 200 with the job's snapshot and raises nothing.
C8_PollFailureSwallowed ==
    (reply.op = "get_status" /\ reply.poll \in PollFailures)
       => /\ reply.http = 200
          /\ reply.raised = ""
          /\ reply.job_id \in DOMAIN jobs
          /\ reply.body = Snapshot(jobs, reply.job_id)

C8_Witness ==
    /\ reply.op = "get_status"
    /\ reply.poll = "Exception"
    /\ reply.http = 200
    /\ jobs[reply.job_id].status = "running"

C10_UnknownJobNotFound ==
    [][\A j \in JobIds :
          (j \notin DOMAIN jobs /\ GetStatusCall(j))
             => /\ reply'.op = "get_status"
                /\ reply'.http = 404
                /\ UNCHANGED <<jobs, payment_instances, tasks>>]_vars

C10_Witness ==
    /\ reply.op = "get_status"
    /\ reply.http = 404
    /\ reply.job_id \notin DOMAIN jobs
    /\ DOMAIN jobs # {}

\* the callback runs of job j that are suspended in complete_payment
HandleRuns(j) ==
    {t \in Suspended : t.kind = "handle_payment_status" /\ t.job_id = j}

\* C11: removing the payment of a job is safe to repeat: every exit of the
\* callback that comes back from complete_payment, the second one for the same
\* job included, raises nothing and leaves the registry without an entry for
\* the job.
C11_RemovalIdempotent ==
    (reply.op = "handle_payment_status" /\ reply.finalization \in {"ok", "failed"})
       => /\ reply.raised = ""
          /\ reply.job_id \notin DOMAIN payment_instances

\* two runs for one job both came back from complete_payment: the second one
\* found the entry already removed
C11_Witness ==
    /\ reply.op = "handle_payment_status"
    /\ reply.finalization \in {"ok", "failed"}
    /\ exec_count[reply.job_id] = 2
    /\ HandleRuns(reply.job_id) = {}
    /\ reply.delivered_in = "running"
    /\ reply.job_id \notin DOMAIN payment_instances

\* ------------------------------------------------- the gatekeeper alone
\* the dictionaries execute_crew_task is called with: any category, also an
\* empty one, and dictionaries without the ad_category key
ExecutorCategories ==
    {"Technology", "Gaming", "DeFi", "Sports", "Finance", "technology", ""}

ExecutorInputs ==
    [ad_category : ExecutorCategories, bid_amount : {"0.5", "0.1", ""},
     ad_content_url : {"url", "other", ""}]
    \cup [bid_amount : {"0.5", "0.1", ""}, ad_content_url : {"url", "other", ""}]

\* one call of execute_crew_task is about to run
ExecutorInit ==
    /\ jobs = <<>>
    /\ payment_instances = <<>>
    /\ \E input_data \in ExecutorInputs :
          tasks = SetToBag({[kind |-> "execute_crew_task", pc |-> "called",
                             input_data |-> input_data, result |-> None]})
    /\ exec_count = [j \in JobIds |-> 0]
    /\ calls = 0
    /\ reply = NoReply

\* the call runs to its return
ExecutorReturns(t) ==
    /\ t.kind = "execute_crew_task"
    /\ t.pc = "called"
    /\ tasks' = SetToBag({[t EXCEPT !.pc = "returned",
                                   !.result = execute_crew_task(t.input_data)]})
    /\ UNCHANGED <<jobs, payment_instances, exec_count, calls, reply>>

ExecutorNext == \E t \in Suspended : ExecutorReturns(t)

ExecutorSpec == ExecutorInit /\ [][ExecutorNext]_vars

\* C12: the gatekeeper answers every input: ERROR when the category is missing
\* or empty, REJECTED when it is not in the allow-list {Technology, Gaming,
\* DeFi}, ACCEPTED when it is; it leaves the job and payment tables alone.
C12_GatekeeperDecision ==
    \A t \in Suspended :
       t.pc = "returned"
          => /\ Head(t.result) =
                   IF "ad_category" \notin DOMAIN t.input_data
                         \/ t.input_data["ad_category"] = ""
                   THEN "ERROR"
                   ELSE IF t.input_data["ad_category"] \in {"Technology", "Gaming", "DeFi"}
                        THEN "ACCEPTED"
                        ELSE "REJECTED"
             /\ jobs = <<>>
             /\ payment_instances = <<>>

\* the call with an empty category has returned ERROR
C12_Witness ==
    \E t \in Suspended :
       /\ t.pc = "returned"
       /\ "ad_category" \in DOMAIN t.input_data
       /\ t.input_data["ad_category"] = ""
       /\ Head(t.result) = "ERROR"

\* C13: a job that is completed or failed, with no callback run for it still
\* suspended, has no entry in payment_instances.
C13_NoSessionLeak ==
    \A j \in DOMAIN jobs :
       (jobs[j].status \in Terminal /\ HandleRuns(j) = {})
          => j \notin DOMAIN payment_instances

\* a run left through the except branch and the entry is gone
C13_Witness ==
    /\ reply.op = "handle_payment_status"
    /\ reply.finalization = "failed"
    /\ jobs[reply.job_id].status = "failed"
    /\ HandleRuns(reply.job_id) = {}
    /\ reply.job_id \notin DOMAIN payment_instances

\* start_job for job j is still between storing the job and the return of
\* start_status_monitoring
BeingStarted(j) ==
    \E t \in Suspended : t.kind = "start_job" /\ t.job_id = j
                            /\ t.pc = "start_status_monitoring"

\* C14: every job that is awaiting payment or running has a payment registered
\* under its identifier whose monitor is active (or is just being started by
\* the start_job call that created the job); payment_instances, being a
\* table keyed by job identifier, holds at most one per job.
C14_ActiveSessionWhileOpen ==
    \A j \in DOMAIN jobs :
       jobs[j].status \notin Terminal
          => /\ j \in DOMAIN payment_instances
             /\ payment_instances[j].monitoring \/ BeingStarted(j)

\* C15: while a callback run for job j is between setting running and writing
\* the terminal state (suspended in complete_payment), no step of another
\* task changes any field of j's record.
C15_SettlementAtomic ==
    [][\A j \in DOMAIN jobs :
          (/\ HandleRuns(j) # {}
           /\ \A t \in HandleRuns(j) : CopiesIn(t, tasks') >= CopiesIn(t, tasks))
             => jobs'[j] = jobs[j]]_vars

\* C16: the gatekeeper runs only in a callback delivery for the job, never in
\* start_job or get_status; complete_payment is called only in a step in which
\* the gatekeeper has returned its result; the status becomes completed only
\* in the step in which complete_payment returns; a job no callback was
\* delivered for stays awaiting payment.
C16_GatedOrdering ==
    [][\A j \in JobIds :
          /\ exec_count'[j] # exec_count[j] => HandleCall(j)
          /\ \A t \in BagToSet(tasks') :
                (/\ t.kind = "handle_payment_status"
                 /\ t.job_id = j
                 /\ CopiesIn(t, tasks') > CopiesIn(t, tasks))
                   => /\ exec_count'[j] = exec_count[j] + 1
                      /\ t.result = execute_crew_task(jobs[j].input_data)
                      /\ t.result # None
          /\ (/\ j \in DOMAIN jobs
              /\ jobs[j].status # "completed"
              /\ jobs'[j].status = "completed")
                => \E t \in HandleRuns(j) : HandleCompleted(t)
          /\ (j \in DOMAIN jobs' /\ exec_count'[j] = 0)
                => jobs'[j].status = "awaiting_payment"]_vars

\* one delivery, the gatekeeper ran once, complete_payment returned, completed
C16_Witness ==
    /\ reply.op = "handle_payment_status"
    /\ reply.finalization = "ok"
    /\ reply.delivered_in = "awaiting_payment"
    /\ exec_count[reply.job_id] = 1
    /\ jobs[reply.job_id].status = "completed"
    /\ \E k \in DOMAIN jobs : exec_count[k] = 0 /\ jobs[k].status = "awaiting_payment"

\* a step of get_status for job j: the call itself or the return of its poll
GetStatusStep(j) ==
    \/ GetStatusCall(j)
    \/ \E t \in Suspended, o \in PollOutcomes :
          t.job_id = j /\ GetStatusPolled(t, o)

\* C17: get_status writes at most payment_status of the job it was asked
\* about: status, result, error, payment identifier, input and requester of
\* every job, and the payment table, are after each of its steps what they
\* were before.
C17_GetStatusFrame ==
    [][\A j \in JobIds :
          GetStatusStep(j)
             => /\ payment_instances' = payment_instances
                /\ DOMAIN jobs' = DOMAIN jobs
                /\ \A k \in DOMAIN jobs :
                      /\ k # j => jobs'[k] = jobs[k]
                      /\ [jobs'[k] EXCEPT !.payment_status = jobs[k].payment_status]
                            = jobs[k]]_vars

\* a poll has just replaced payment_status of a running job
C17_Witness ==
    /\ reply.op = "get_status"
    /\ reply.poll = "ok"
    /\ reply.body.payment_status # reply.prev_payment_status
    /\ jobs[reply.job_id].status = "running"

\* a step of the callback for job j: the delivery or the return of
\* complete_payment
HandleStep(j) ==
    \/ HandleCall(j)
    \/ \E t \in HandleRuns(j) : HandleCompleted(t) \/ HandleCompleteFailed(t)

\* no handler takes a lock: with room in the event loop, a call for a stored
\* job can start, and a suspended coroutine can resume, whatever the
\* coroutines of other jobs are doing
NeverWaits ==
    /\ \A j \in DOMAIN jobs :
          (calls < MaxCalls /\ CanSuspend)
             => /\ ENABLED GetStatusCall(j)
                /\ CanDeliver(j) => ENABLED HandleCall(j)
    /\ \A t \in Suspended :
          /\ t.kind = "handle_payment_status"
                => ENABLED HandleCompleted(t) /\ ENABLED HandleCompleteFailed(t)
          /\ t.kind = "get_status"
                => \A o \in PollOutcomes : ENABLED GetStatusPolled(t, o)

\* C18: a step of the callback or of get_status for job a leaves the record
\* and the payment entry of every other job as they were, and never has to
\* wait for a coroutine of another job.
C18_JobsIndependent ==
    /\ []NeverWaits
    /\ [][\A a \in JobIds :
             (HandleStep(a) \/ GetStatusStep(a))
                => \A b \in DOMAIN jobs \ {a} :
                      /\ jobs'[b] = jobs[b]
                      /\ (b \in DOMAIN payment_instances')
                            = (b \in DOMAIN payment_instances)
                      /\ b \in DOMAIN payment_instances
                            => payment_instances'[b] = payment_instances[b]]_vars

\* the callback for one job came back while a coroutine of another job is
\* still suspended and that job's payment is still registered
C18_Witness ==
    /\ reply.op = "handle_payment_status"
    /\ reply.finalization \in {"ok", "failed"}
    /\ \E t \in Suspended :
          /\ t.job_id # reply.job_id
          /\ t.kind = "get_status"
          /\ t.job_id \in DOMAIN payment_instances

\* C19: a completed job has payment_status "completed" in every state, also
\* when a get_status poll that started before the callback finished returns
\* after it.
C19_CompletedPaymentStatus ==
    \A j \in DOMAIN jobs :
       jobs[j].status = "completed" => jobs[j].payment_status = "completed"

\* -------------------------------------------------------------- progress
\* complete_payment, once awaited by a callback run of job j, returns or raises
HandleResumes(j) ==
    \E t \in HandleRuns(j) : HandleCompleted(t) \/ HandleCompleteFailed(t)

\* the service with every awaited complete_payment eventually coming back
FairSpec == Spec /\ \A j \in JobIds : WF_vars(HandleResumes(j))

\* C20: a job that a callback has set running eventually is completed or
\* failed, whichever step fails and whatever get_status calls interleave.
C20_RunningEnds ==
    \A j \in JobIds :
       (j \in DOMAIN jobs /\ jobs[j].status = "running")
          ~> (j \in DOMAIN jobs /\ jobs[j].status \in Terminal)

\* a run delivered to a job awaiting payment has ended in failed while a
\* get_status poll of the job is still in flight
C20_Witness ==
    /\ reply.op = "handle_payment_status"
    /\ reply.delivered_in = "awaiting_payment"
    /\ reply.finalization = "failed"
    /\ jobs[reply.job_id].status = "failed"
    /\ \E t \in Suspended : t.kind = "get_status" /\ t.job_id = reply.job_id

====
